---- MODULE Spec2Model ----
(***************************************************************************)
(* Order API -> Delivery API resilient HTTP client                         *)
(* (python-sample-app/order-api/http_client.py) together with its caller   *)
(* create_order (python-sample-app/order-api/main.py).                     *)
(*                                                                         *)
(* Times are in milliseconds.  An exception is a record carrying its class *)
(* and, for httpx.HTTPStatusError, the response it was raised from.        *)
(***************************************************************************)
EXTENDS Integers, Sequences, FiniteSets, TLC

(***************************************************************************)
(* Bounds of the exploration                                               *)
(***************************************************************************)
MaxRetriesBound == 3
MaxProbes == 2
MaxAttemptIndex == 4
MaxHelperCalls == 3
MaxRequests == 3
MaxInputLen == 3
MaxClock == 40
MaxSsmCalls == 4
BatchSize == 2
MaxBatches == 2

\* values of HTTP_RETRY_BACKOFF_FACTOR explored (1.0 s is the default)
BackoffFactors == {1000, 8000}

(***************************************************************************)
(* Program constants                                                       *)
(***************************************************************************)
MaxBackoffMs == 30000
MaxRetryAfterMs == 60000
MinDelayMs == 100
JitterPercents == {10, 20, 30}

(***************************************************************************)
(* httpx / pydantic / asyncio exception classes                            *)
(***************************************************************************)
TimeoutClasses == {"ConnectTimeout", "ReadTimeout", "WriteTimeout", "PoolTimeout"}
NetworkClasses == {"ConnectError", "ReadError"}
ProtocolClasses == {"RemoteProtocolError", "LocalProtocolError"}

\* the class itself and all its base classes
Ancestors(cls) ==
    CASE cls \in TimeoutClasses ->
           {cls, "TimeoutException", "TransportError", "RequestError", "HTTPError", "Exception", "BaseException"}
      [] cls \in NetworkClasses ->
           {cls, "NetworkError", "TransportError", "RequestError", "HTTPError", "Exception", "BaseException"}
      [] cls \in ProtocolClasses ->
           {cls, "ProtocolError", "TransportError", "RequestError", "HTTPError", "Exception", "BaseException"}
      [] cls = "RequestError" -> {cls, "HTTPError", "Exception", "BaseException"}
      [] cls = "HTTPStatusError" -> {cls, "HTTPError", "Exception", "BaseException"}
      [] cls = "ValidationError" -> {cls, "ValueError", "Exception", "BaseException"}
      [] cls = "AttributeError" -> {cls, "Exception", "BaseException"}
      [] cls = "CancelledError" -> {cls, "BaseException"}
      [] OTHER -> {cls, "BaseException"}

isinstance(e, classes) == (Ancestors(e.cls) \cap classes) # {}

(***************************************************************************)
(* Response bodies and Retry-After headers the downstream can send         *)
(***************************************************************************)
RequiredFields == {"success", "message", "order_id", "processed_at"}

NoBody ==
    [parses |-> FALSE, object |-> FALSE, fields |-> {}, success |-> FALSE, message |-> "", order_id |-> ""]
BodyOkFull ==
    [parses |-> TRUE, object |-> TRUE, fields |-> RequiredFields,
     success |-> TRUE, message |-> "Order processed successfully", order_id |-> "X"]
BodyFailFull ==
    [parses |-> TRUE, object |-> TRUE, fields |-> RequiredFields,
     success |-> FALSE, message |-> "out of stock", order_id |-> "X"]
BodyOkPartial ==
    [parses |-> TRUE, object |-> TRUE, fields |-> {"success", "order_id"},
     success |-> TRUE, message |-> "", order_id |-> "X"]
BodyErrorMessage ==
    [parses |-> TRUE, object |-> TRUE, fields |-> {"message"},
     success |-> FALSE, message |-> "bad field", order_id |-> ""]
BodyJsonList ==
    [parses |-> TRUE, object |-> FALSE, fields |-> {}, success |-> FALSE, message |-> "", order_id |-> ""]
BodyNotJson ==
    [parses |-> FALSE, object |-> FALSE, fields |-> {}, success |-> FALSE, message |-> "<html>", order_id |-> ""]

HeaderAbsent == "<absent>"
NumericHeaderMs ==
    [h \in {"-5", "0", "2", "120"} |->
        CASE h = "-5" -> -5000 [] h = "0" -> 0 [] h = "2" -> 2000 [] h = "120" -> 120000]

(***************************************************************************)
(* What one physical exchange can end in                                   *)
(***************************************************************************)
TransportFailure(cls) ==
    [t |-> "transport", cls |-> cls, status |-> 0, body |-> NoBody, retry_after |-> HeaderAbsent]
HttpResponse(status, body, hdr) ==
    [t |-> "response", cls |-> "", status |-> status, body |-> body, retry_after |-> hdr]

TransportFailures ==
    {TransportFailure(c) : c \in TimeoutClasses \cup NetworkClasses \cup ProtocolClasses}

SuccessResponses ==
    {HttpResponse(s, b, HeaderAbsent) :
        s \in {200, 201},
        b \in {BodyOkFull, BodyFailFull, BodyOkPartial, BodyJsonList, BodyNotJson}}

ErrorResponses ==
         {HttpResponse(s, b, HeaderAbsent) :
             s \in {301, 400, 404, 409, 500, 503}, b \in {BodyErrorMessage, BodyNotJson}}
    \cup {HttpResponse(503, BodyErrorMessage, "2")}
    \cup {HttpResponse(429, BodyErrorMessage, h) : h \in {HeaderAbsent, "", "abc", "2", "120"}}

Outcomes == TransportFailures \cup SuccessResponses \cup ErrorResponses

NoOutcome == [t |-> "none", cls |-> "", status |-> 0, body |-> NoBody, retry_after |-> HeaderAbsent]

NoException == [cls |-> "None", status |-> 0, body |-> NoBody, retry_after |-> HeaderAbsent]
Exc(cls) == [cls |-> cls, status |-> 0, body |-> NoBody, retry_after |-> HeaderAbsent]
HTTPStatusError(o) ==
    [cls |-> "HTTPStatusError", status |-> o.status, body |-> o.body, retry_after |-> o.retry_after]
CancelledError == Exc("CancelledError")

NoResponse == [success |-> FALSE, message |-> "", order_id |-> ""]


(***************************************************************************)
(* DeliveryAPIClient: pure helpers                                         *)
(***************************************************************************)
RetryableCategories == {"timeout", "connection", "server_error", "rate_limit"}

Min(a, b) == IF a <= b THEN a ELSE b
Max(a, b) == IF a >= b THEN a ELSE b

RECURSIVE Pow2(_)
Pow2(n) == IF n <= 0 THEN 1 ELSE 2 * Pow2(n - 1)

\* variant: the upper bound of the client-error range is missing
_categorize_error_open_range(e) ==
    IF isinstance(e, {"TimeoutException", "ConnectTimeout", "ReadTimeout"}) THEN "timeout"
    ELSE IF isinstance(e, {"ConnectError", "NetworkError", "RemoteProtocolError"}) THEN "connection"
    ELSE IF isinstance(e, {"HTTPStatusError"}) /\ e.status = 429 THEN "rate_limit"
    ELSE IF isinstance(e, {"HTTPStatusError"}) /\ 400 <= e.status THEN "client_error"
    ELSE "unknown"

\* variant: the 4xx range is tested before 429
_categorize_error_range_first(e) ==
    IF isinstance(e, {"TimeoutException", "ConnectTimeout", "ReadTimeout"}) THEN "timeout"
    ELSE IF isinstance(e, {"ConnectError", "NetworkError", "RemoteProtocolError"}) THEN "connection"
    ELSE IF isinstance(e, {"HTTPStatusError"}) /\ 400 <= e.status /\ e.status < 500 THEN "client_error"
    ELSE IF isinstance(e, {"HTTPStatusError"}) /\ e.status = 429 THEN "rate_limit"
    ELSE IF isinstance(e, {"HTTPStatusError"}) /\ e.status >= 500 THEN "server_error"
    ELSE "unknown"

_categorize_error(e) ==
    IF isinstance(e, {"TimeoutException", "ConnectTimeout", "ReadTimeout"}) THEN "timeout"
    ELSE IF isinstance(e, {"ConnectError", "NetworkError", "RemoteProtocolError"}) THEN "connection"
    ELSE IF isinstance(e, {"HTTPStatusError"}) /\ e.status = 429 THEN "rate_limit"
    ELSE IF isinstance(e, {"HTTPStatusError"}) /\ 400 <= e.status /\ e.status < 500 THEN "client_error"
    ELSE IF isinstance(e, {"HTTPStatusError"}) /\ e.status >= 500 THEN "server_error"
    ELSE "unknown"

_is_retryable_error(e) == _categorize_error(e) \in RetryableCategories

\* variant: the 429 branch is missing
_should_retry_without_429(e, attempt_no, limit) ==
    IF attempt_no >= limit THEN FALSE
    ELSE IF isinstance(e, {"TimeoutException", "ConnectTimeout", "ReadTimeout"}) THEN TRUE
    ELSE IF isinstance(e, {"ConnectError", "NetworkError", "RemoteProtocolError"}) THEN TRUE
    ELSE IF isinstance(e, {"PoolTimeout"}) THEN TRUE
    ELSE IF isinstance(e, {"HTTPStatusError"}) THEN e.status >= 500
    ELSE FALSE

\* variant: every error status is retried
_should_retry_any_status(e, attempt_no, limit) ==
    IF attempt_no >= limit THEN FALSE
    ELSE IF isinstance(e, {"TimeoutException", "ConnectTimeout", "ReadTimeout"}) THEN TRUE
    ELSE IF isinstance(e, {"ConnectError", "NetworkError", "RemoteProtocolError"}) THEN TRUE
    ELSE IF isinstance(e, {"PoolTimeout"}) THEN TRUE
    ELSE IF isinstance(e, {"HTTPStatusError"}) THEN e.status >= 400
    ELSE FALSE

\* variant: the limit test is off by one (attempt > max_retries)
_should_retry_off_by_one(e, attempt_no, limit) ==
    IF attempt_no > limit THEN FALSE
    ELSE IF isinstance(e, {"TimeoutException", "ConnectTimeout", "ReadTimeout"}) THEN TRUE
    ELSE IF isinstance(e, {"ConnectError", "NetworkError", "RemoteProtocolError"}) THEN TRUE
    ELSE IF isinstance(e, {"PoolTimeout"}) THEN TRUE
    ELSE IF isinstance(e, {"HTTPStatusError"}) THEN
             IF e.status >= 500 THEN TRUE
             ELSE IF e.status = 429 THEN TRUE
             ELSE FALSE
    ELSE FALSE

\* variant: every httpx.RequestError is retried
_should_retry_request_error(e, attempt_no, limit) ==
    IF attempt_no >= limit THEN FALSE
    ELSE IF isinstance(e, {"RequestError"}) THEN TRUE
    ELSE IF isinstance(e, {"HTTPStatusError"}) THEN
             IF e.status >= 500 THEN TRUE
             ELSE IF e.status = 429 THEN TRUE
             ELSE FALSE
    ELSE FALSE

_should_retry(e, attempt_no, limit) ==
    IF attempt_no >= limit THEN FALSE
    ELSE IF isinstance(e, {"TimeoutException", "ConnectTimeout", "ReadTimeout"}) THEN TRUE
    ELSE IF isinstance(e, {"ConnectError", "NetworkError", "RemoteProtocolError"}) THEN TRUE
    ELSE IF isinstance(e, {"PoolTimeout"}) THEN TRUE
    ELSE IF isinstance(e, {"HTTPStatusError"}) THEN
             IF e.status >= 500 THEN TRUE
             ELSE IF e.status = 429 THEN TRUE
             ELSE FALSE
    ELSE FALSE

\* variant: the Retry-After value is capped like the exponential delay
BaseDelay_hint_capped_at_30(attempt_no, e, factor) ==
    LET exponential == Min(factor * Pow2(attempt_no), MaxBackoffMs)
    IN  IF    /\ isinstance(e, {"HTTPStatusError"})
              /\ e.status = 429
              /\ e.retry_after \notin {HeaderAbsent, ""}
              /\ e.retry_after \in DOMAIN NumericHeaderMs
        THEN Min(NumericHeaderMs[e.retry_after], MaxBackoffMs)
        ELSE exponential

\* variant: the Retry-After header of any error response is honoured
BaseDelay_any_status(attempt_no, e, factor) ==
    LET exponential == Min(factor * Pow2(attempt_no), MaxBackoffMs)
    IN  IF    /\ isinstance(e, {"HTTPStatusError"})
              /\ e.retry_after \notin {HeaderAbsent, ""}
              /\ e.retry_after \in DOMAIN NumericHeaderMs
        THEN Min(NumericHeaderMs[e.retry_after], MaxRetryAfterMs)
        ELSE exponential

\* delay before jitter: exponential, capped; overridden by a numeric
\* Retry-After header of a 429 response
BaseDelay(attempt_no, e, factor) ==
    LET exponential == Min(factor * Pow2(attempt_no), MaxBackoffMs)
    IN  IF    /\ isinstance(e, {"HTTPStatusError"})
              /\ e.status = 429
              /\ e.retry_after \notin {HeaderAbsent, ""}
              /\ e.retry_after \in DOMAIN NumericHeaderMs
        THEN Min(NumericHeaderMs[e.retry_after], MaxRetryAfterMs)
        ELSE exponential

\* variant: the jitter fraction is drawn from 5%..15%
JitterTerm_halved(delay, jitter_pct) == (jitter_pct * delay) \div 200

\* `random.uniform(0.1, 0.3) * delay`
JitterTerm(delay, jitter_pct) == (jitter_pct * delay) \div 100

\* variant: the jitter is subtracted
_calculate_backoff_delay_minus_jitter(attempt_no, e, factor, jitter_pct) ==
    LET delay == BaseDelay(attempt_no, e, factor)
        jitter == JitterTerm(delay, jitter_pct)
    IN  Max(delay - jitter, MinDelayMs)

_calculate_backoff_delay(attempt_no, e, factor, jitter_pct) ==
    LET delay == BaseDelay(attempt_no, e, factor)
        jitter == JitterTerm(delay, jitter_pct)
    IN  Max(delay + jitter, MinDelayMs)

(***************************************************************************)
(* The body of the try block of one attempt, applied to what the exchange  *)
(* ended in: raise_for_status, response.json(), DeliveryResponse construction  *)
(***************************************************************************)
Raised(e) == [ok |-> FALSE, exc |-> e, resp |-> NoResponse]
Returned(r) == [ok |-> TRUE, exc |-> NoException, resp |-> r]

DeliveryResponse(body) ==
    [success |-> body.success, message |-> body.message, order_id |-> body.order_id]

TryBody(o) ==
    IF o.t = "transport" THEN Raised(Exc(o.cls))
    ELSE IF ~(200 <= o.status /\ o.status <= 299) THEN Raised(HTTPStatusError(o))
    ELSE IF ~o.body.parses THEN Raised(Exc("RequestError"))
    ELSE IF ~o.body.object THEN Raised(Exc("AttributeError"))
    ELSE IF ~(RequiredFields \subseteq o.body.fields) THEN Raised(Exc("ValidationError"))
    ELSE Returned(DeliveryResponse(o.body))

\* except Exception as e: (CancelledError derives from BaseException only)
ExceptCatches(e) == isinstance(e, {"Exception"})

\* variant: only the first failure is remembered
RecordException_keep_first(previous, e) == IF previous = NoException THEN e ELSE previous

\* last_exception = e
RecordException(previous, e) == e

\* for attempt in range(self.max_retries + 1)
range_has_next(attempt_no, limit) == attempt_no + 1 < limit + 1
\* variant: the attempt index does not advance
range_next_stuck(attempt_no) == attempt_no

range_next(attempt_no) == attempt_no + 1

(***************************************************************************)
(* create_order: what the original caller is answered                      *)
(***************************************************************************)
NoHttpResponse == [status |-> 0, detail |-> "", message |-> "", code |-> 0]
HttpAnswer(status, detail, message, code) ==
    [status |-> status, detail |-> detail, message |-> message, code |-> code]

\* variant: the success flag of the response is not looked at
create_order_on_return_unchecked(resp) == HttpAnswer(200, "processed", "", 0)

create_order_on_return(resp) ==
    IF ~resp.success
    THEN HttpAnswer(500, "Order processing failed: ", resp.message, 0)
    ELSE HttpAnswer(200, "processed", "", 0)

\* variant: the except clause for httpx.TimeoutException is missing
create_order_on_exception_no_timeout_clause(e) ==
    IF isinstance(e, {"HTTPStatusError"}) THEN
        IF e.status = 400 THEN
            IF e.body.parses /\ e.body.object /\ "message" \in e.body.fields
            THEN HttpAnswer(400, "", e.body.message, 0)
            ELSE HttpAnswer(400, "Invalid order data", "", 0)
        ELSE IF e.status >= 500
        THEN HttpAnswer(502, "Delivery service is experiencing issues", "", 0)
        ELSE HttpAnswer(502, "Delivery service error (HTTP )", "", e.status)
    ELSE IF isinstance(e, {"ConnectError"})
    THEN HttpAnswer(503, "Unable to connect to delivery service", "", 0)
    ELSE IF isinstance(e, {"RequestError"})
    THEN HttpAnswer(503, "Delivery service is currently unavailable", "", 0)
    ELSE IF isinstance(e, {"Exception"})
    THEN HttpAnswer(500, "Internal server error during order processing", "", 0)
    ELSE NoHttpResponse

\* variant: the server-error branch starts at 400
create_order_on_exception_issues_from_400(e) ==
    IF isinstance(e, {"TimeoutException"})
    THEN HttpAnswer(504, "Request to delivery service timed out", "", 0)
    ELSE IF isinstance(e, {"HTTPStatusError"}) THEN
        IF e.status = 400 THEN
            IF e.body.parses /\ e.body.object /\ "message" \in e.body.fields
            THEN HttpAnswer(400, "", e.body.message, 0)
            ELSE HttpAnswer(400, "Invalid order data", "", 0)
        ELSE IF e.status >= 400
        THEN HttpAnswer(502, "Delivery service is experiencing issues", "", 0)
        ELSE HttpAnswer(502, "Delivery service error (HTTP )", "", e.status)
    ELSE IF isinstance(e, {"ConnectError"})
    THEN HttpAnswer(503, "Unable to connect to delivery service", "", 0)
    ELSE IF isinstance(e, {"RequestError"})
    THEN HttpAnswer(503, "Delivery service is currently unavailable", "", 0)
    ELSE IF isinstance(e, {"Exception"})
    THEN HttpAnswer(500, "Internal server error during order processing", "", 0)
    ELSE NoHttpResponse

\* variant: a 400 is always answered with the fixed text
create_order_on_exception_fixed_text(e) ==
    IF isinstance(e, {"TimeoutException"})
    THEN HttpAnswer(504, "Request to delivery service timed out", "", 0)
    ELSE IF isinstance(e, {"HTTPStatusError"}) THEN
        IF e.status = 400 THEN HttpAnswer(400, "Invalid order data", "", 0)
        ELSE IF e.status >= 500
        THEN HttpAnswer(502, "Delivery service is experiencing issues", "", 0)
        ELSE HttpAnswer(502, "Delivery service error (HTTP )", "", e.status)
    ELSE IF isinstance(e, {"ConnectError"})
    THEN HttpAnswer(503, "Unable to connect to delivery service", "", 0)
    ELSE IF isinstance(e, {"RequestError"})
    THEN HttpAnswer(503, "Delivery service is currently unavailable", "", 0)
    ELSE IF isinstance(e, {"Exception"})
    THEN HttpAnswer(500, "Internal server error during order processing", "", 0)
    ELSE NoHttpResponse

create_order_on_exception(e) ==
    IF isinstance(e, {"TimeoutException"})
    THEN HttpAnswer(504, "Request to delivery service timed out", "", 0)
    ELSE IF isinstance(e, {"HTTPStatusError"}) THEN
        IF e.status = 400 THEN
            IF e.body.parses /\ e.body.object /\ "message" \in e.body.fields
            THEN HttpAnswer(400, "", e.body.message, 0)
            ELSE HttpAnswer(400, "Invalid order data", "", 0)
        ELSE IF e.status >= 500
        THEN HttpAnswer(502, "Delivery service is experiencing issues", "", 0)
        ELSE HttpAnswer(502, "Delivery service error (HTTP )", "", e.status)
    ELSE IF isinstance(e, {"ConnectError"})
    THEN HttpAnswer(503, "Unable to connect to delivery service", "", 0)
    ELSE IF isinstance(e, {"RequestError"})
    THEN HttpAnswer(503, "Delivery service is currently unavailable", "", 0)
    ELSE IF isinstance(e, {"Exception"})
    THEN HttpAnswer(500, "Internal server error during order processing", "", 0)
    ELSE NoHttpResponse


(***************************************************************************)
(* State                                                                   *)
(***************************************************************************)
VARIABLES
    max_retries,            \* self.max_retries (settings.HTTP_MAX_RETRIES)
    retry_backoff_factor,   \* self.retry_backoff_factor, in ms
    pc,                     \* "idle", "in_flight" (awaiting client.post), "sleeping", "done"
    attempt,                \* loop variable of process_order
    last_exception,         \* local variable of process_order
    reply,                  \* what the most recent exchange ended in
    wire,                   \* status codes the downstream answered with, in order
    cancelled,              \* where the caller's cancellation arrived: "no", "in_flight", "sleeping"
    result,                 \* how process_order ended
    trace,                  \* events of the call, in order
    log,                    \* structured log records, in order
    sleep_delay,            \* argument of the pending asyncio.sleep
    posts,                  \* POST requests issued
    sleep_calls,            \* asyncio.sleep calls made
    clients_created,        \* httpx.AsyncClient objects constructed
    open_clients,           \* httpx.AsyncClient objects currently open
    http_response,          \* answer of create_order to the original caller
    hc_pc,                  \* health_check: "idle" or "in_flight"
    hc_calls,               \* health_check calls started
    hc_gets,                \* GET requests issued by health_check
    hc_reply,               \* what the most recent health exchange ended in
    hc_result,              \* how the most recent health_check ended
    fn,                     \* the helper methods called on their own: arguments and results
    sib,                    \* a second process_order call running as a sibling task
    db,                     \* the Delivery API: POST /api/delivery, store_order, health_check
    san,                    \* one text field on its way from the request to the stored row
    ssm,                    \* Config._get_ssm_parameter: clock, cache and the call in progress
    tg                      \* the traffic generator: its counters and the send_request tasks of a batch

order_vars ==
    <<pc, attempt, last_exception, reply, wire, cancelled, result, trace, log, sleep_delay, posts,
      clients_created, open_clients, http_response>>
health_vars == <<hc_pc, hc_calls, hc_gets, hc_reply, hc_result>>
config_vars == <<max_retries, retry_backoff_factor>>
service_vars == <<db, san, ssm, tg>>
helper_vars == <<fn, sib, service_vars>>
client_vars == <<config_vars, order_vars, sleep_calls, health_vars, fn, sib>>
vars == <<config_vars, order_vars, sleep_calls, health_vars, helper_vars>>

Ev(kind, n, cat) == [ev |-> kind, n |-> n, cat |-> cat]
LogRecord(level, event, cat, n, status) ==
    [level |-> level, event |-> event, category |-> cat, attempt |-> n, status_code |-> status]

NoResult == [kind |-> "none", exc |-> NoException, resp |-> NoResponse]

\* no helper has been called on its own
FnIdle ==
    [exc |-> NoException, attempt |-> 0, jitter |-> 0, calls |-> 0,
     has_cat |-> FALSE, cat |-> "",
     has_retry |-> FALSE, retry |-> FALSE,
     has_retryable |-> FALSE, retryable |-> FALSE,
     has_delay |-> FALSE, base |-> 0, jitter_ms |-> 0, delay |-> 0]

\* no sibling call has been made
SibIdle ==
    [pc |-> "idle", attempt |-> 0, posts |-> 0, sleeps |-> 0, sleep_delay |-> 0,
     last_exception |-> NoException, result |-> NoResult, started_in_sleep |-> 0]

\* the Delivery API has handled no request; the orders table is empty
DbIdle ==
    [pc |-> "idle", op |-> "none", requests |-> 0, for_post |-> 0,
     alarm |-> FALSE, session |-> "none", sessions_before |-> 0, open_sessions |-> 0,
     opened |-> 0, rollbacks |-> 0, fault |-> "None", fault_at |-> "none",
     raised |-> "None", committed |-> FALSE, rows |-> 0,
     status |-> 0, success |-> FALSE, error |-> "", healthy |-> FALSE]

\* no text field has been received
SanIdle ==
    [pc |-> "idle", field |-> "", input |-> <<>>, value |-> <<>>, stored |-> <<>>]

\* the class attributes of Config before the first call, at time 0
SsmIdle ==
    [pc |-> "idle", now |-> 0, cached |-> FALSE, cache_value |-> "", cache_timestamp |-> 0,
     current_time |-> 0, lookups |-> 0, last_lookup |-> 0, previous_lookup |-> 0,
     calls |-> 0, call_cached |-> FALSE, call_age |-> 0, call_expected |-> "",
     call_looked_up |-> FALSE, call_failed |-> FALSE, returned |-> ""]

\* TrafficGenerator.__init__: both counters at 0, no task created
TgIdle ==
    [total_orders_processed |-> 0, total_orders_failed |-> 0, request_counter |-> 0,
     batches |-> 0, completed |-> 0, metrics |-> 0,
     task |-> [t \in 1..BatchSize |->
                 [pc |-> "idle", status |-> 0, path |-> "none", counted |-> 0,
                  print_failed |-> FALSE, returned |-> "none"]]]

\* no request has been made yet
NothingStarted ==
    /\ pc = "idle"
    /\ attempt = 0
    /\ last_exception = NoException
    /\ reply = NoOutcome
    /\ wire = <<>>
    /\ cancelled = "no"
    /\ result = NoResult
    /\ trace = <<>>
    /\ log = <<>>
    /\ sleep_delay = 0
    /\ posts = 0
    /\ sleep_calls = 0
    /\ clients_created = 0
    /\ open_clients = 0
    /\ http_response = NoHttpResponse
    /\ hc_pc = "idle"
    /\ hc_calls = 0
    /\ hc_gets = 0
    /\ hc_reply = NoOutcome
    /\ hc_result = NoResult
    /\ sib = SibIdle
    /\ db = DbIdle
    /\ san = SanIdle
    /\ ssm = SsmIdle
    /\ tg = TgIdle

Init ==
    /\ max_retries \in 0..MaxRetriesBound
    /\ retry_backoff_factor \in BackoffFactors
    /\ NothingStarted
    /\ fn = FnIdle

(***************************************************************************)
(* process_order, called from create_order                                 *)
(***************************************************************************)
\* one loop iteration up to `await client.post(...)`
IssueAttempt(n, tr) ==
    /\ attempt' = n
    /\ clients_created' = clients_created + 1
    /\ open_clients' = open_clients + 1
    /\ posts' = posts + 1
    /\ trace' = Append(tr, Ev("attempt", n, ""))
    /\ pc' = "in_flight"

\* the warning logged before the backoff sleep
RetryWarning(cat, e, n) ==
    LogRecord("warning", "retrying", cat, n + 1,
              IF cat = "server_error" /\ isinstance(e, {"HTTPStatusError"}) THEN e.status ELSE 0)

\* variant: whatever was raised is retried while attempts remain
RetryDecision_anything(e, attempt_no) == attempt_no < max_retries

\* the retry decision of the except clause
RetryDecision(e, attempt_no) == ExceptCatches(e) /\ _should_retry(e, attempt_no, max_retries)

\* after the loop: final error log, raise last_exception; create_order answers
Exhausted(le, tr, lg) ==
    LET cat == _categorize_error(le)
    IN  /\ result' = [kind |-> "raised", exc |-> le, resp |-> NoResponse]
        /\ trace' = Append(tr, Ev("raise", attempt, cat))
        /\ log' = Append(lg, LogRecord("error", "failed", cat, attempt + 1,
                                       IF isinstance(le, {"HTTPStatusError"}) THEN le.status ELSE 0))
        /\ http_response' = create_order_on_exception(le)
        /\ pc' = "done"

\* an exception no except clause of process_order catches
Propagate(e, tr, lg) ==
    /\ result' = [kind |-> "raised", exc |-> e, resp |-> NoResponse]
    /\ trace' = Append(tr, Ev("propagate", attempt, ""))
    /\ log' = lg
    /\ http_response' = create_order_on_exception(e)
    /\ pc' = "done"

\* variant: the client stays open when the block is left
async_with_exit_kept_open(open) == open

\* leaving `async with self.get_client() as client` closes the client
async_with_exit(open) == open - 1

\* exception e leaves the `async with` block of the current attempt
AttemptRaised(e, lg) ==
    /\ open_clients' = async_with_exit(open_clients)
    /\ UNCHANGED <<attempt, posts, clients_created>>
    /\ IF RetryDecision(e, attempt)
       THEN LET cat == _categorize_error(e)
            IN  \E j \in JitterPercents :
                  /\ last_exception' = RecordException(last_exception, e)
                  /\ sleep_delay' = _calculate_backoff_delay(attempt, e, retry_backoff_factor, j)
                  /\ sleep_calls' = sleep_calls + 1
                  /\ trace' = Append(trace, Ev("classify", attempt, cat))
                  /\ log' = Append(lg, RetryWarning(cat, e, attempt))
                  /\ pc' = "sleeping"
                  /\ UNCHANGED <<result, http_response>>
       ELSE IF ExceptCatches(e)
       THEN LET le == RecordException(last_exception, e)
            IN  /\ last_exception' = le
                /\ Exhausted(le, Append(trace, Ev("classify", attempt, _categorize_error(e))), lg)
                /\ UNCHANGED <<sleep_delay, sleep_calls>>
       ELSE /\ Propagate(e, trace, lg)
            /\ UNCHANGED <<last_exception, sleep_delay, sleep_calls>>

\* log records written inside the try block
TryBodyLog(o) ==
    IF o.t = "transport" \/ ~(200 <= o.status /\ o.status <= 299) THEN <<>>
    ELSE IF ~o.body.parses THEN <<LogRecord("error", "invalid_json", "", attempt + 1, o.status)>>
    ELSE IF ~o.body.object THEN <<>>
    ELSE <<LogRecord("info", "successful", "", attempt + 1, o.status)>>

CreateOrder ==
    /\ pc = "idle"
    /\ last_exception' = NoException
    /\ IssueAttempt(0, trace)
    /\ UNCHANGED <<config_vars, helper_vars, reply, wire, cancelled, result, log, sleep_delay, sleep_calls,
                   http_response, health_vars>>

PostCompletes(o) ==
    /\ pc = "in_flight"
    /\ reply' = o
    /\ wire' = Append(wire, o.status)
    /\ LET r == TryBody(o)
           lg == log \o TryBodyLog(o)
       IN  IF r.ok
           THEN /\ result' = [kind |-> "returned", exc |-> NoException, resp |-> r.resp]
                /\ trace' = Append(trace, Ev("return", attempt, ""))
                /\ log' = lg
                /\ http_response' = create_order_on_return(r.resp)
                /\ open_clients' = async_with_exit(open_clients)
                /\ pc' = "done"
                /\ UNCHANGED <<attempt, posts, clients_created, last_exception,
                               sleep_delay, sleep_calls>>
           ELSE AttemptRaised(r.exc, lg)
    /\ UNCHANGED <<config_vars, helper_vars, cancelled, health_vars>>

SleepCompletes ==
    /\ pc = "sleeping"
    /\ LET tr == Append(trace, Ev("sleep", attempt, ""))
       IN  IF range_has_next(attempt, max_retries)
           THEN /\ IssueAttempt(range_next(attempt), tr)
                /\ UNCHANGED <<result, log, http_response>>
           ELSE /\ Exhausted(last_exception, tr, log)
                /\ UNCHANGED <<attempt, posts, clients_created, open_clients>>
    /\ UNCHANGED <<config_vars, helper_vars, last_exception, reply, wire, cancelled, sleep_delay, sleep_calls,
                   health_vars>>

\* the calling task is cancelled while suspended in process_order
Cancel ==
    /\ pc \in {"in_flight", "sleeping"}
    /\ cancelled' = pc
    /\ IF pc = "in_flight"
       THEN /\ reply' = [NoOutcome EXCEPT !.t = "cancelled"]
            /\ AttemptRaised(CancelledError, log)
       ELSE /\ Propagate(CancelledError, trace, log)
            /\ UNCHANGED <<attempt, posts, clients_created, open_clients, last_exception,
                           reply, sleep_delay, sleep_calls>>
    /\ UNCHANGED <<config_vars, helper_vars, wire, health_vars>>

Next ==
    \/ CreateOrder
    \/ \E o \in Outcomes : PostCompletes(o)
    \/ SleepCompletes
    \/ Cancel

Spec == Init /\ [][Next]_vars


(***************************************************************************)
(* health_check                                                            *)
(***************************************************************************)
HealthOutcomes ==
         {TransportFailure(c) : c \in {"ConnectTimeout", "ReadTimeout", "ConnectError", "LocalProtocolError"}}
    \cup {HttpResponse(200, b, HeaderAbsent) : b \in {BodyOkFull, BodyJsonList, BodyNotJson}}
    \cup {HttpResponse(s, BodyErrorMessage, HeaderAbsent) : s \in {404, 500, 503}}
    \cup {HttpResponse(429, BodyErrorMessage, h) : h \in {HeaderAbsent, "2"}}

\* the try block of health_check applied to what the exchange ended in
HealthTryBody(o) ==
    IF o.t = "transport" THEN Raised(Exc(o.cls))
    ELSE IF ~(200 <= o.status /\ o.status <= 299) THEN Raised(HTTPStatusError(o))
    ELSE IF ~o.body.parses THEN Raised(Exc("RequestError"))
    ELSE IF ~o.body.object THEN Raised(Exc("AttributeError"))
    ELSE Returned(DeliveryResponse(o.body))

\* variant: timeouts of the probe are retried
HealthExcept_retry_timeout(e) ==
    IF isinstance(e, {"TimeoutException"}) THEN "retry" ELSE "raise"

\* what the except clauses of health_check do with the exception
HealthExcept(e) ==
    IF isinstance(e, {"TimeoutException"}) THEN "raise"
    ELSE IF isinstance(e, {"HTTPStatusError"}) THEN "raise"
    ELSE IF isinstance(e, {"RequestError"}) THEN "raise"
    ELSE "raise"

HealthCheck ==
    /\ hc_pc = "idle"
    /\ hc_calls < MaxProbes
    /\ hc_calls' = hc_calls + 1
    /\ hc_gets' = hc_gets + 1
    /\ hc_pc' = "in_flight"
    /\ hc_result' = NoResult
    /\ UNCHANGED <<config_vars, helper_vars, order_vars, sleep_calls, hc_reply>>

HealthGetCompletes(o) ==
    /\ hc_pc = "in_flight"
    /\ hc_reply' = o
    /\ LET r == HealthTryBody(o)
       IN  IF r.ok
           THEN /\ hc_result' = [kind |-> "returned", exc |-> NoException, resp |-> r.resp]
                /\ hc_pc' = "idle"
                /\ UNCHANGED <<hc_gets, sleep_calls>>
           ELSE IF HealthExcept(r.exc) = "raise"
           THEN /\ hc_result' = [kind |-> "raised", exc |-> r.exc, resp |-> NoResponse]
                /\ hc_pc' = "idle"
                /\ UNCHANGED <<hc_gets, sleep_calls>>
           ELSE /\ sleep_calls' = sleep_calls + 1
                /\ hc_gets' = hc_gets + 1
                /\ UNCHANGED <<hc_pc, hc_result>>
    /\ UNCHANGED <<config_vars, helper_vars, order_vars, hc_calls>>

HealthNext ==
    \/ HealthCheck
    \/ \E o \in HealthOutcomes : HealthGetCompletes(o)

SpecHealth == Init /\ [][HealthNext]_vars


(***************************************************************************)
(* Two process_order calls of one DeliveryAPIClient as tasks of one event  *)
(* loop: the call made by create_order and a sibling call                  *)
(***************************************************************************)
Tasks == {"main", "sibling"}

\* what the Delivery API answers in the two-task runs
SiblingOutcomes ==
    { TransportFailure("ReadTimeout"),
      HttpResponse(200, BodyOkFull, HeaderAbsent),
      HttpResponse(404, BodyErrorMessage, HeaderAbsent) }

\* the tasks suspended in the backoff sleep
Sleepers == {t \in Tasks : (t = "main" /\ pc = "sleeping") \/ (t = "sibling" /\ sib.pc = "sleeping")}

\* variant: the backoff is a blocking time.sleep(delay)
SleepHoldsLoop_time_sleep(sleepers) == sleepers

\* the tasks that keep the event loop's thread busy while they sleep:
\* `await asyncio.sleep(delay)` hands the thread back to the loop
SleepHoldsLoop(sleepers) == {}

\* the event loop can resume task t
CanRun(t) == SleepHoldsLoop(Sleepers) \subseteq {t}

\* the loop iteration of the sibling call up to `await client.post(...)`
SiblingIssueAttempt(n) ==
    /\ clients_created' = clients_created + 1
    /\ open_clients' = open_clients + 1
    /\ UNCHANGED <<config_vars, fn, service_vars, pc, attempt, last_exception, reply, wire, cancelled, result, trace,
                   log, sleep_delay, posts, sleep_calls, http_response, health_vars>>

SiblingStart ==
    /\ CanRun("sibling")
    /\ sib.pc = "idle"
    /\ sib' = [sib EXCEPT !.pc = "in_flight", !.attempt = 0, !.posts = 1,
                          !.last_exception = NoException,
                          !.started_in_sleep = IF pc = "sleeping" THEN sleep_calls ELSE 0]
    /\ SiblingIssueAttempt(0)

SiblingPostCompletes(o) ==
    /\ CanRun("sibling")
    /\ sib.pc = "in_flight"
    /\ LET r == TryBody(o)
       IN  IF r.ok
           THEN sib' = [sib EXCEPT !.pc = "done",
                                   !.result = [kind |-> "returned", exc |-> NoException, resp |-> r.resp]]
           ELSE IF RetryDecision(r.exc, sib.attempt)
           THEN \E j \in JitterPercents :
                  sib' = [sib EXCEPT !.pc = "sleeping",
                                     !.last_exception = RecordException(sib.last_exception, r.exc),
                                     !.sleep_delay = _calculate_backoff_delay(sib.attempt, r.exc,
                                                                              retry_backoff_factor, j),
                                     !.sleeps = sib.sleeps + 1]
           ELSE LET le == IF ExceptCatches(r.exc)
                          THEN RecordException(sib.last_exception, r.exc) ELSE sib.last_exception
                IN  sib' = [sib EXCEPT !.pc = "done", !.last_exception = le,
                                       !.result = [kind |-> "raised",
                                                   exc |-> IF ExceptCatches(r.exc) THEN le ELSE r.exc,
                                                   resp |-> NoResponse]]
    /\ open_clients' = async_with_exit(open_clients)
    /\ UNCHANGED <<config_vars, fn, service_vars, pc, attempt, last_exception, reply, wire, cancelled, result, trace,
                   log, sleep_delay, posts, sleep_calls, clients_created, http_response, health_vars>>

SiblingSleepCompletes ==
    /\ CanRun("sibling")
    /\ sib.pc = "sleeping"
    /\ IF range_has_next(sib.attempt, max_retries)
       THEN /\ sib' = [sib EXCEPT !.pc = "in_flight", !.attempt = range_next(sib.attempt),
                                  !.posts = sib.posts + 1]
            /\ SiblingIssueAttempt(range_next(sib.attempt))
       ELSE /\ sib' = [sib EXCEPT !.pc = "done",
                                  !.result = [kind |-> "raised", exc |-> sib.last_exception,
                                              resp |-> NoResponse]]
            /\ UNCHANGED <<config_vars, order_vars, sleep_calls, health_vars, fn, service_vars>>

SiblingNext ==
    \/ SiblingStart
    \/ \E o \in SiblingOutcomes : SiblingPostCompletes(o)
    \/ SiblingSleepCompletes

MainCreateOrder == CanRun("main") /\ CreateOrder
MainPostCompletes(o) == CanRun("main") /\ PostCompletes(o)
MainSleepCompletes == CanRun("main") /\ SleepCompletes

MainNext ==
    \/ MainCreateOrder
    \/ \E o \in SiblingOutcomes : MainPostCompletes(o)
    \/ MainSleepCompletes

SiblingsNext ==
    \/ MainNext
    \/ SiblingNext

SpecSiblings == Init /\ [][SiblingsNext]_vars

(***************************************************************************)
(* The helper methods called on their own, on a client whose configuration *)
(* and arguments are drawn at the start                                    *)
(***************************************************************************)
\* 0.05 s, 1 s (the default) and 8 s
HelperFactors == {50} \cup BackoffFactors

HelperExceptions ==
         {Exc(c) : c \in TimeoutClasses \cup NetworkClasses \cup ProtocolClasses
                          \cup {"RequestError", "ValidationError", "AttributeError"}}
    \cup {HTTPStatusError(HttpResponse(s, BodyErrorMessage, HeaderAbsent)) :
             s \in {301, 400, 404, 499, 500, 503}}
    \cup {HTTPStatusError(HttpResponse(503, BodyErrorMessage, "2"))}
    \cup {HTTPStatusError(HttpResponse(429, BodyErrorMessage, h)) :
             h \in {HeaderAbsent, "", "abc", "-5", "0", "2", "120"}}

InitHelpers ==
    /\ max_retries \in 0..MaxRetriesBound
    /\ retry_backoff_factor \in HelperFactors
    /\ NothingStarted
    /\ \E e \in HelperExceptions, a \in 0..MaxAttemptIndex, j \in JitterPercents :
          fn = [FnIdle EXCEPT !.exc = e, !.attempt = a, !.jitter = j]

CallCategorize ==
    /\ fn.calls < MaxHelperCalls
    /\ fn' = [fn EXCEPT !.calls = @ + 1, !.has_cat = TRUE, !.cat = _categorize_error(fn.exc)]
    /\ UNCHANGED <<config_vars, order_vars, sleep_calls, health_vars, sib, service_vars>>

CallIsRetryable ==
    /\ fn.calls < MaxHelperCalls
    /\ fn' = [fn EXCEPT !.calls = @ + 1, !.has_retryable = TRUE,
                        !.retryable = _is_retryable_error(fn.exc)]
    /\ UNCHANGED <<config_vars, order_vars, sleep_calls, health_vars, sib, service_vars>>

CallShouldRetry ==
    /\ fn.calls < MaxHelperCalls
    /\ fn' = [fn EXCEPT !.calls = @ + 1, !.has_retry = TRUE,
                        !.retry = _should_retry(fn.exc, fn.attempt, max_retries)]
    /\ UNCHANGED <<config_vars, order_vars, sleep_calls, health_vars, sib, service_vars>>

CallCalculateBackoff ==
    /\ fn.calls < MaxHelperCalls
    /\ fn' = [fn EXCEPT !.calls = @ + 1, !.has_delay = TRUE,
                        !.base = BaseDelay(fn.attempt, fn.exc, retry_backoff_factor),
                        !.jitter_ms = JitterTerm(BaseDelay(fn.attempt, fn.exc, retry_backoff_factor),
                                                 fn.jitter),
                        !.delay = _calculate_backoff_delay(fn.attempt, fn.exc,
                                                           retry_backoff_factor, fn.jitter)]
    /\ UNCHANGED <<config_vars, order_vars, sleep_calls, health_vars, sib, service_vars>>

HelpersNext ==
    \/ CallCategorize
    \/ CallIsRetryable
    \/ CallShouldRetry
    \/ CallCalculateBackoff

SpecHelpers == InitHelpers /\ [][HelpersNext]_vars

(***************************************************************************)
(* The start of the runs that leave the Order API client alone: its         *)
(* configuration has the defaults of config.py                              *)
(***************************************************************************)
DefaultMaxRetries == 3
DefaultBackoffFactor == 1000

InitServices ==
    /\ max_retries = DefaultMaxRetries
    /\ retry_backoff_factor = DefaultBackoffFactor
    /\ NothingStarted
    /\ fn = FnIdle

(***************************************************************************)
(* The Delivery API: POST /api/delivery -> process_order_from_http ->       *)
(* store_order under with_timeout(10), and DatabaseManager.health_check     *)
(* under with_timeout(20)                                                   *)
(***************************************************************************)
\* the exception classes of database.py and their base classes
SqlAncestors(cls) ==
    CASE cls = "TimeoutError"         -> {"TimeoutError", "SQLAlchemyError", "Exception"}
      [] cls = "IntegrityError"       -> {"IntegrityError", "DatabaseError", "DBAPIError",
                                          "SQLAlchemyError", "Exception"}
      [] cls = "OperationalError"     -> {"OperationalError", "DatabaseError", "DBAPIError",
                                          "SQLAlchemyError", "Exception"}
      [] cls = "DatabaseTimeoutError" -> {"DatabaseTimeoutError", "Exception"}
      [] cls = "RuntimeError"         -> {"RuntimeError", "Exception"}
      [] cls = "ValueError"           -> {"ValueError", "Exception"}
      [] OTHER                        -> {}

sql_isinstance(cls, classes) == SqlAncestors(cls) \cap classes # {}

\* where store_order and health_check can be when something is raised
StorePositions == {"prologue", "get_session", "commit", "log_success"}
StoreTryPositions == {"commit", "log_success"}
HealthPositions == {"h_get_session", "h_execute"}

\* what the database layer can raise at a position (the SIGALRM deadline apart)
FaultsAt(at) ==
    CASE at \in {"get_session", "h_get_session"} -> {"TimeoutError", "OperationalError", "RuntimeError"}
      [] at = "commit"                           -> {"TimeoutError", "OperationalError", "IntegrityError"}
      [] at = "h_execute"                        -> {"TimeoutError", "OperationalError"}
      [] OTHER                                   -> {}

\* the except clauses of get_session
get_session_except(x) ==
    IF sql_isinstance(x, {"TimeoutError"}) THEN "TimeoutError" ELSE x

\* the except clauses of the inner try of store_order
store_order_inner_except(x) ==
    IF sql_isinstance(x, {"IntegrityError"}) THEN "IntegrityError"
    ELSE IF sql_isinstance(x, {"SQLAlchemyError"}) THEN "RuntimeError"
    ELSE x

\* the rollbacks made by the except clauses of the inner try
store_order_inner_rollbacks(x) ==
    IF sql_isinstance(x, {"IntegrityError", "SQLAlchemyError"}) THEN 1 ELSE 0

\* the except clauses of the outer try of store_order
store_order_outer_except(y) ==
    IF sql_isinstance(y, {"TimeoutError"}) THEN "TimeoutError"
    ELSE IF sql_isinstance(y, {"IntegrityError", "SQLAlchemyError"}) THEN y
    ELSE "RuntimeError"

\* the except clause of the wrapper made by with_timeout
with_timeout_except(z) ==
    IF sql_isinstance(z, {"DatabaseTimeoutError"}) THEN "TimeoutError" ELSE z

\* what store_order raises to its caller when x is raised at position `at`
store_order_raises(x, at) ==
    CASE at = "prologue"    -> with_timeout_except(x)
      [] at = "get_session" -> with_timeout_except(store_order_outer_except(get_session_except(x)))
      [] OTHER              -> with_timeout_except(store_order_outer_except(store_order_inner_except(x)))

\* the except clauses of process_order_from_http
process_order_from_http_except(e) ==
    IF sql_isinstance(e, {"ValueError"}) THEN "ValueError"
    ELSE IF sql_isinstance(e, {"TimeoutError", "IntegrityError"}) THEN e
    ELSE "RuntimeError"

\* variant: the route answers success whatever process_order_from_http raised
delivery_answer_always_success(e) ==
    [status |-> 200, success |-> TRUE, error |-> ""]

\* the answer of the route: success_response after process_order_from_http
\* returned, else the except clause that matches what it raised
delivery_answer(e) ==
    IF e = "None" THEN [status |-> 200, success |-> TRUE, error |-> ""]
    ELSE IF sql_isinstance(e, {"ValueError"})
    THEN [status |-> 400, success |-> FALSE, error |-> "Validation error"]
    ELSE IF sql_isinstance(e, {"TimeoutError"})
    THEN [status |-> 503, success |-> FALSE, error |-> "Service overloaded"]
    ELSE IF sql_isinstance(e, {"IntegrityError"})
    THEN [status |-> 409, success |-> FALSE, error |-> "Conflict"]
    ELSE IF sql_isinstance(e, {"RuntimeError"})
    THEN [status |-> 500, success |-> FALSE, error |-> "Processing failed"]
    ELSE [status |-> 500, success |-> FALSE, error |-> "Internal server error"]

\* variant: the finally clause does not close the session
finally_close_skipped(session) == session

\* `finally: if session: session.close()`
finally_close(session) == IF session = "none" THEN "none" ELSE "closed"

\* the outer except clauses of store_order: `if session:` rollback and close
outer_cleanup(session) == IF session = "none" THEN "none" ELSE "closed"

\* the sessions given back to the pool when a session goes from before to after
Released(before, after) == IF before = "open" /\ after = "closed" THEN 1 ELSE 0

\* POST /api/delivery arrives; an invalid body is answered 400 at once
HandlePost(valid, post_no) ==
    /\ db.pc \in {"idle", "done"}
    /\ IF valid
       THEN db' = [db EXCEPT !.pc = "prologue", !.op = "store_order", !.requests = @ + 1,
                             !.for_post = post_no, !.alarm = TRUE, !.session = "none",
                             !.sessions_before = db.open_sessions, !.opened = 0, !.rollbacks = 0,
                             !.fault = "None", !.fault_at = "none", !.raised = "None",
                             !.committed = FALSE, !.status = 0, !.success = FALSE, !.error = "",
                             !.healthy = FALSE]
       ELSE db' = [db EXCEPT !.pc = "done", !.op = "validation", !.requests = @ + 1,
                             !.for_post = post_no, !.alarm = FALSE, !.session = "none",
                             !.sessions_before = db.open_sessions, !.opened = 0, !.rollbacks = 0,
                             !.fault = "ValueError", !.fault_at = "validation", !.raised = "ValueError",
                             !.committed = FALSE, !.status = delivery_answer("ValueError").status,
                             !.success = delivery_answer("ValueError").success,
                             !.error = delivery_answer("ValueError").error,
                             !.healthy = FALSE]

\* store_order runs on: session obtained, commit done, success logged, 200 sent
StoreOrderStep ==
    /\ db.op = "store_order"
    /\ CASE db.pc = "prologue" ->
              db' = [db EXCEPT !.pc = "get_session"]
         [] db.pc = "get_session" ->
              db' = [db EXCEPT !.pc = "commit", !.session = "open", !.open_sessions = @ + 1,
                               !.opened = @ + 1]
         [] db.pc = "commit" ->
              db' = [db EXCEPT !.pc = "log_success", !.committed = TRUE, !.rows = @ + 1]
         [] db.pc = "log_success" ->
              db' = [db EXCEPT !.pc = "done", !.session = finally_close(db.session),
                               !.open_sessions = @ - Released(db.session, finally_close(db.session)),
                               !.alarm = FALSE, !.status = delivery_answer("None").status,
                               !.success = delivery_answer("None").success,
                               !.error = delivery_answer("None").error]
         [] OTHER -> FALSE

\* x is raised at the current position of store_order; the except and finally
\* clauses run and the route answers
StoreOrderRaise(x) ==
    LET at == db.pc
        in_try == at \in StoreTryPositions
        after_inner == IF in_try THEN finally_close(db.session) ELSE db.session
        after_outer == IF at = "prologue" THEN after_inner ELSE outer_cleanup(after_inner)
        e == process_order_from_http_except(store_order_raises(x, at))
    IN  db' = [db EXCEPT !.pc = "done", !.fault = x, !.fault_at = at,
                         !.raised = store_order_raises(x, at),
                         !.rollbacks = (IF in_try THEN store_order_inner_rollbacks(x) ELSE 0)
                                       + (IF at # "prologue" /\ db.session # "none" THEN 1 ELSE 0),
                         !.session = after_outer,
                         !.open_sessions = @ - Released(db.session, after_outer),
                         !.alarm = FALSE,
                         !.status = delivery_answer(e).status,
                         !.success = delivery_answer(e).success,
                         !.error = delivery_answer(e).error]

StoreOrderFault(x) ==
    /\ db.op = "store_order"
    /\ db.pc \in StorePositions
    /\ x \in FaultsAt(db.pc)
    /\ StoreOrderRaise(x)

\* the SIGALRM deadline fires: timeout_handler raises DatabaseTimeoutError
\* wherever the decorated function is
DbAlarm ==
    /\ db.alarm
    /\ \/ /\ db.op = "store_order"
          /\ db.pc \in StorePositions
          /\ StoreOrderRaise("DatabaseTimeoutError")
       \/ /\ db.op = "health_check"
          /\ db.pc \in HealthPositions
          /\ db' = [db EXCEPT !.pc = "done", !.fault = "DatabaseTimeoutError", !.fault_at = db.pc,
                              !.rollbacks = IF db.session # "none" THEN 1 ELSE 0,
                              !.session = finally_close(db.session),
                              !.open_sessions = @ - Released(db.session, finally_close(db.session)),
                              !.alarm = FALSE, !.healthy = FALSE]

\* DatabaseManager.health_check is called
DbHealthCheck ==
    /\ db.pc \in {"idle", "done"}
    /\ db' = [db EXCEPT !.pc = "h_get_session", !.op = "health_check", !.requests = @ + 1,
                        !.alarm = TRUE, !.session = "none",
                        !.sessions_before = db.open_sessions, !.opened = 0, !.rollbacks = 0,
                        !.fault = "None", !.fault_at = "none", !.raised = "None",
                        !.committed = FALSE, !.status = 0, !.success = FALSE, !.error = "",
                        !.healthy = FALSE]

DbHealthStep ==
    /\ db.op = "health_check"
    /\ CASE db.pc = "h_get_session" ->
              db' = [db EXCEPT !.pc = "h_execute", !.session = "open", !.open_sessions = @ + 1,
                               !.opened = @ + 1]
         [] db.pc = "h_execute" ->
              db' = [db EXCEPT !.pc = "done", !.session = finally_close(db.session),
                               !.open_sessions = @ - Released(db.session, finally_close(db.session)),
                               !.alarm = FALSE, !.healthy = TRUE]
         [] OTHER -> FALSE

\* a query of health_check or its get_session raises: rollback, close, False
DbHealthFault(x) ==
    /\ db.op = "health_check"
    /\ db.pc \in HealthPositions
    /\ x \in FaultsAt(db.pc)
    /\ db' = [db EXCEPT !.pc = "done", !.fault = x, !.fault_at = db.pc,
                        !.rollbacks = IF db.session # "none" THEN 1 ELSE 0,
                        !.session = finally_close(db.session),
                        !.open_sessions = @ - Released(db.session, finally_close(db.session)),
                        !.alarm = FALSE, !.healthy = FALSE]

DeliveryPost(valid) ==
    /\ db.requests < MaxRequests
    /\ HandlePost(valid, 0)
    /\ UNCHANGED <<client_vars, san, ssm, tg>>

DeliveryHealthCheck ==
    /\ db.requests < MaxRequests
    /\ DbHealthCheck
    /\ UNCHANGED <<client_vars, san, ssm, tg>>

DeliveryStep ==
    /\ (StoreOrderStep \/ DbHealthStep)
    /\ UNCHANGED <<client_vars, san, ssm, tg>>

DeliveryFault(x) ==
    /\ (StoreOrderFault(x) \/ DbHealthFault(x))
    /\ UNCHANGED <<client_vars, san, ssm, tg>>

DeliveryAlarm ==
    /\ DbAlarm
    /\ UNCHANGED <<client_vars, san, ssm, tg>>

DeliveryNext ==
    \/ \E valid \in BOOLEAN : DeliveryPost(valid)
    \/ DeliveryHealthCheck
    \/ DeliveryStep
    \/ \E x \in {"TimeoutError", "OperationalError", "IntegrityError", "RuntimeError"} : DeliveryFault(x)
    \/ DeliveryAlarm

SpecDelivery == InitServices /\ [][DeliveryNext]_vars

(***************************************************************************)
(* The text fields of an order from the POST body to the stored row:       *)
(* DeliveryRequest, to_dict, validate_order_data, prepare_order_for_storage *)
(***************************************************************************)
\* the characters the inputs are made of
Alphabet == {"a", " ", "&", "<", "'"}

RECURSIVE SeqsUpTo(_)
SeqsUpTo(n) ==
    IF n = 0 THEN {<<>>}
    ELSE LET shorter == SeqsUpTo(n - 1)
         IN  shorter \cup {Append(x, c) : x \in {y \in shorter : Len(y) = n - 1}, c \in Alphabet}

\* the values of customer_name and shipping_address in the request body
TextInputs == SeqsUpTo(MaxInputLen)

\* html.escape(content, quote=True), one character
escape_char(c) ==
    CASE c = "&"  -> <<"&", "a", "m", "p", ";">>
      [] c = "<"  -> <<"&", "l", "t", ";">>
      [] c = ">"  -> <<"&", "g", "t", ";">>
      [] c = "\"" -> <<"&", "q", "u", "o", "t", ";">>
      [] c = "'"  -> <<"&", "#", "x", "2", "7", ";">>
      [] OTHER    -> <<c>>

RECURSIVE html_escape(_)
html_escape(content) ==
    IF content = <<>> THEN <<>>
    ELSE escape_char(Head(content)) \o html_escape(Tail(content))

sanitize_html_content(content) == html_escape(content)

RECURSIVE lstrip(_)
lstrip(content) ==
    IF content # <<>> /\ Head(content) = " " THEN lstrip(Tail(content)) ELSE content

RECURSIVE rstrip(_)
rstrip(content) ==
    IF content # <<>> /\ content[Len(content)] = " "
    THEN rstrip(SubSeq(content, 1, Len(content) - 1)) ELSE content

\* str.strip()
strip(content) == rstrip(lstrip(content))

\* the length limit of a field (shipping_address has none)
MaxCustomerNameLen == 255
MaxFieldLen(field) == IF field = "customer_name" THEN MaxCustomerNameLen ELSE 0

\* the checks both validators make on a text field
FieldAccepted(field, text) ==
    /\ text # <<>>
    /\ (MaxFieldLen(field) > 0 => Len(text) <= MaxFieldLen(field))

\* POST /api/delivery carries `text` in `field`
SanReceive(field, text) ==
    /\ san.pc = "idle"
    /\ san' = [san EXCEPT !.pc = "received", !.field = field, !.input = text, !.value = text]
    /\ UNCHANGED <<client_vars, db, ssm, tg>>

\* DeliveryRequest._validate_and_parse: the field must be present and truthy,
\* is stripped and checked
SanParse ==
    /\ san.pc = "received"
    /\ IF san.value # <<>> /\ FieldAccepted(san.field, strip(san.value))
       THEN san' = [san EXCEPT !.pc = "parsed", !.value = strip(san.value)]
       ELSE san' = [san EXCEPT !.pc = "rejected"]
    /\ UNCHANGED <<client_vars, db, ssm, tg>>

\* DeliveryRequest.to_dict
SanToDict ==
    /\ san.pc = "parsed"
    /\ san' = [san EXCEPT !.pc = "dict", !.value = sanitize_html_content(san.value)]
    /\ UNCHANGED <<client_vars, db, ssm, tg>>

\* validate_order_data, called by process_order_from_http on the dictionary
SanValidate ==
    /\ san.pc = "dict"
    /\ IF san.value # <<>> /\ FieldAccepted(san.field, strip(san.value))
       THEN san' = [san EXCEPT !.pc = "validated",
                               !.value = sanitize_html_content(strip(san.value))]
       ELSE san' = [san EXCEPT !.pc = "rejected"]
    /\ UNCHANGED <<client_vars, db, ssm, tg>>

\* prepare_order_for_storage copies the field; store_order writes it
SanStore ==
    /\ san.pc = "validated"
    /\ san' = [san EXCEPT !.pc = "stored", !.stored = san.value]
    /\ UNCHANGED <<client_vars, db, ssm, tg>>

SanitizeNext ==
    \/ \E field \in {"customer_name", "shipping_address"}, text \in TextInputs : SanReceive(field, text)
    \/ SanParse
    \/ SanToDict
    \/ SanValidate
    \/ SanStore

SpecSanitize == InitServices /\ [][SanitizeNext]_vars

(***************************************************************************)
(* Config._get_ssm_parameter of the Delivery API, called sequentially for  *)
(* one parameter name; the clock is in whole seconds                       *)
(***************************************************************************)
_cache_ttl == 30

\* the default handed to _get_ssm_parameter and what SSM can hold
DefaultValue == "10"
SsmValues == {"5", "20"}

\* variant: the cache entry is trusted for half the time
cache_valid_half_ttl(cached, timestamp, current_time) ==
    cached /\ 2 * (current_time - timestamp) < _cache_ttl

\* the test for a cached value that is still valid
cache_valid(cached, timestamp, current_time) ==
    cached /\ current_time - timestamp < _cache_ttl

\* time passes
SsmTick ==
    /\ ssm.now < MaxClock
    /\ ssm' = [ssm EXCEPT !.now = @ + 1]
    /\ UNCHANGED <<client_vars, db, san, tg>>

\* _get_ssm_parameter is called: it reads the clock and either answers from
\* the cache or goes to SSM
SsmCall ==
    /\ ssm.pc = "idle"
    /\ ssm.calls < MaxSsmCalls
    /\ LET hit == cache_valid(ssm.cached, ssm.cache_timestamp, ssm.now)
       IN  ssm' = [ssm EXCEPT !.pc = IF hit THEN "idle" ELSE "lookup",
                              !.current_time = ssm.now,
                              !.calls = @ + 1,
                              !.call_cached = ssm.cached,
                              !.call_age = ssm.now - ssm.cache_timestamp,
                              !.call_expected = ssm.cache_value,
                              !.call_looked_up = ~hit,
                              !.call_failed = FALSE,
                              !.lookups = IF hit THEN @ ELSE @ + 1,
                              !.last_lookup = IF hit THEN @ ELSE ssm.now,
                              !.previous_lookup = IF hit THEN @ ELSE ssm.last_lookup,
                              !.returned = IF hit THEN ssm.cache_value ELSE ""]
    /\ UNCHANGED <<client_vars, db, san, tg>>

\* ssm_client.get_parameter returns a value
SsmLookupReturns(value) ==
    /\ ssm.pc = "lookup"
    /\ ssm' = [ssm EXCEPT !.pc = "idle", !.cached = TRUE, !.cache_value = value,
                          !.cache_timestamp = ssm.current_time, !.returned = value]
    /\ UNCHANGED <<client_vars, db, san, tg>>

\* boto3 raises: the default is cached and returned
SsmLookupFails ==
    /\ ssm.pc = "lookup"
    /\ ssm' = [ssm EXCEPT !.pc = "idle", !.cached = TRUE, !.cache_value = DefaultValue,
                          !.cache_timestamp = ssm.current_time, !.returned = DefaultValue,
                          !.call_failed = TRUE]
    /\ UNCHANGED <<client_vars, db, san, tg>>

SsmNext ==
    \/ SsmTick
    \/ SsmCall
    \/ \E value \in SsmValues : SsmLookupReturns(value)
    \/ SsmLookupFails

SpecSsm == InitServices /\ [][SsmNext]_vars

(***************************************************************************)
(* The traffic generator: normal_load creates BATCH_SIZE send_request       *)
(* tasks and gathers them.  The tasks run on one event loop, so a task      *)
(* runs from one await to the next without interruption: the awaits of      *)
(* send_request are session.post and response.text.                         *)
(***************************************************************************)
TgStatuses == {200, 201, 500}
\* what reading the body gives: a JSON object whose status is "processed", a
\* JSON object with another status, text that is no JSON, or text() raising
TgBodies == {"processed", "other_status", "not_json", "unreadable"}
\* what a print to the console does
TgConsole == {"ok", "OSError"}

order_processing_success(status, body) ==
    CASE body = "unreadable" -> FALSE
      [] body = "not_json" -> status = 200
      [] body = "processed" -> status = 200
      [] OTHER -> FALSE

success(status) == 200 <= status /\ status < 300

\* normal_load: one create_task per request of the batch
TgCreateTasks ==
    /\ tg.batches < MaxBatches
    /\ \A t \in 1..BatchSize : tg.task[t].pc = "idle"
    /\ tg' = [tg EXCEPT !.request_counter = @ + BatchSize,
                        !.task = [t \in 1..BatchSize |->
                                    [pc |-> "posting", status |-> 0, path |-> "none",
                                     counted |-> 0, print_failed |-> FALSE,
                                     returned |-> "none"]]]
    /\ UNCHANGED <<client_vars, db, san, ssm>>

\* session.post gives a response; the task goes on to await response.text()
TgResponseArrives(t, status) ==
    /\ tg.task[t].pc = "posting"
    /\ tg' = [tg EXCEPT !.task[t].pc = "reading", !.task[t].status = status,
                        !.task[t].path = IF success(status) THEN "2xx" ELSE "non-2xx"]
    /\ UNCHANGED <<client_vars, db, san, ssm>>

\* the rest of the async with block: the body is read, one counter is
\* incremented, the metric is built and a message printed.  A print that
\* raises inside the block is caught by except Exception, which increments
\* total_orders_failed and prints again.
TgBodyRead(t, body, console, console_in_handler) ==
    /\ tg.task[t].pc = "reading"
    /\ LET ok == order_processing_success(tg.task[t].status, body)
           caught == console = "OSError"
       IN tg' = [tg EXCEPT
                   !.total_orders_processed = @ + (IF ok THEN 1 ELSE 0),
                   !.total_orders_failed = @ + (IF ok THEN 0 ELSE 1) + (IF caught THEN 1 ELSE 0),
                   !.task[t].pc = "done",
                   !.task[t].counted = @ + 1 + (IF caught THEN 1 ELSE 0),
                   !.task[t].print_failed = caught,
                   !.task[t].returned =
                       IF ~caught \/ console_in_handler = "ok" THEN "metric" ELSE "exception"]
    /\ UNCHANGED <<client_vars, db, san, ssm>>

\* except asyncio.TimeoutError (timeout TRUE) and except Exception: the
\* counter of failures is incremented, the metric built, a message printed
TgPostRaises(t, timeout, console) ==
    /\ tg.task[t].pc = "posting"
    /\ tg' = [tg EXCEPT
                 !.total_orders_failed = @ + 1,
                 !.task[t].pc = "done",
                 !.task[t].path = IF timeout THEN "timeout" ELSE "exception",
                 !.task[t].counted = @ + 1,
                 !.task[t].print_failed = console = "OSError",
                 !.task[t].returned = IF console = "ok" THEN "metric" ELSE "exception"]
    /\ UNCHANGED <<client_vars, db, san, ssm>>

\* asyncio.gather(*tasks, return_exceptions=True) returns: every task of the
\* batch has ended; the metrics among the results are kept
TgGather ==
    /\ \A t \in 1..BatchSize : tg.task[t].pc = "done"
    /\ tg' = [tg EXCEPT
                 !.batches = @ + 1,
                 !.completed = @ + BatchSize,
                 !.metrics = @ + Cardinality({t \in 1..BatchSize : tg.task[t].returned = "metric"}),
                 !.task = TgIdle.task]
    /\ UNCHANGED <<client_vars, db, san, ssm>>

TrafficNext ==
    \/ TgCreateTasks
    \/ \E t \in 1..BatchSize, status \in TgStatuses : TgResponseArrives(t, status)
    \/ \E t \in 1..BatchSize, body \in TgBodies, console \in TgConsole,
          console_in_handler \in TgConsole : TgBodyRead(t, body, console, console_in_handler)
    \/ \E t \in 1..BatchSize, timeout \in BOOLEAN, console \in TgConsole :
          TgPostRaises(t, timeout, console)
    \/ TgGather

SpecTraffic == InitServices /\ [][TrafficNext]_vars

(***************************************************************************)
(* One create_order request end to end: the attempts of process_order and  *)
(* the Delivery API worker that serves them one request at a time          *)
(***************************************************************************)
\* the body of an error_response of the Delivery API
BodyDeliveryError ==
    [parses |-> TRUE, object |-> TRUE, fields |-> {"success", "message", "order_id", "error"},
     success |-> FALSE, message |-> "bad field", order_id |-> "X"]

\* what the Delivery API has put on the wire for the request it finished
DeliveryReply ==
    HttpResponse(db.status, IF db.success THEN BodyOkFull ELSE BodyDeliveryError, HeaderAbsent)

\* the POST of the current attempt reaches the Delivery API
OrdersDeliveryReceives(valid) ==
    /\ pc = "in_flight"
    /\ db.for_post < posts
    /\ HandlePost(valid, posts)
    /\ UNCHANGED <<client_vars, san, ssm, tg>>

OrdersDeliveryStep ==
    /\ StoreOrderStep
    /\ UNCHANGED <<client_vars, san, ssm, tg>>

OrdersDeliveryFault(x) ==
    /\ StoreOrderFault(x)
    /\ UNCHANGED <<client_vars, san, ssm, tg>>

OrdersDeliveryAlarm ==
    /\ DbAlarm
    /\ UNCHANGED <<client_vars, san, ssm, tg>>

\* the answer to the current attempt arrives at the Order API
OrdersAnswerArrives ==
    /\ db.pc = "done"
    /\ db.for_post = posts
    /\ PostCompletes(DeliveryReply)

\* the read timeout of the Order API's client expires first, wherever the
\* Delivery API is with the request
OrdersReadTimeout ==
    /\ pc = "in_flight"
    /\ PostCompletes(TransportFailure("ReadTimeout"))

OrdersNext ==
    \/ CreateOrder
    \/ \E valid \in BOOLEAN : OrdersDeliveryReceives(valid)
    \/ OrdersDeliveryStep
    \/ \E x \in {"TimeoutError", "OperationalError", "IntegrityError", "RuntimeError"} :
          OrdersDeliveryFault(x)
    \/ OrdersDeliveryAlarm
    \/ OrdersAnswerArrives
    \/ OrdersReadTimeout
    \/ SleepCompletes

SpecOrders == Init /\ [][OrdersNext]_vars

(***************************************************************************)
(* Properties                                                              *)
(***************************************************************************)
AttemptEvents == SelectSeq(trace, LAMBDA x : x.ev = "attempt")
Failures == SelectSeq(trace, LAMBDA x : x.ev = "classify")
SleepEvents == SelectSeq(trace, LAMBDA x : x.ev = "sleep")
TerminalEvents == SelectSeq(trace, LAMBDA x : x.ev \in {"return", "raise", "propagate"})
RetryWarnings == SelectSeq(log, LAMBDA r : r.level = "warning")

Is2xx(o) == o.t = "response" /\ 200 <= o.status /\ o.status <= 299

\* C1: one process_order call issues at most max_retries + 1 POST attempts,
\* and the attempt index goes 0, 1, 2, ... increasing by one per attempt.
C1_AttemptsBounded ==
    /\ posts <= max_retries + 1
    /\ Len(AttemptEvents) = posts
    /\ \A i \in 1..Len(AttemptEvents) : AttemptEvents[i].n = i - 1
    /\ \A i \in 1..(Len(AttemptEvents) - 1) : AttemptEvents[i + 1].n = AttemptEvents[i].n + 1

C1_Witness ==
    /\ pc = "done"
    /\ max_retries >= 2
    /\ posts = max_retries + 1
    /\ Failures[1].cat # Failures[2].cat

\* C2: for each retryable category c, when the first N attempts fail with c
\* and the next attempt succeeds, a finished call has made N + 1 attempts and
\* returned if N <= max_retries, and has made max_retries + 1 attempts and
\* raised if N > max_retries.
C2_ExactAttempts ==
    \A c \in RetryableCategories :
        (/\ pc = "done"
         /\ cancelled = "no"
         /\ \A i \in 1..Len(Failures) : Failures[i].cat = c)
        => IF result.kind = "returned"
           THEN /\ posts = Len(Failures) + 1
                /\ Len(Failures) <= max_retries
                /\ result.resp = DeliveryResponse(reply.body)
           ELSE /\ result.kind = "raised"
                /\ Len(Failures) = max_retries + 1
                /\ posts = max_retries + 1

C2_Witness ==
    /\ pc = "done"
    /\ result.kind = "returned"
    /\ Len(Failures) = 2
    /\ \A i \in 1..Len(Failures) : Failures[i].cat = "rate_limit"

\* C3: a client_error (4xx other than 429) ends the call at that attempt for
\* every max_retries: it is the last failure, no sleep or attempt follows, and
\* the raised error carries the status code and body the downstream sent.
C3_ClientErrorFatal ==
    \A i \in 1..Len(trace) :
        (trace[i].ev = "classify" /\ trace[i].cat = "client_error")
        => /\ pc = "done"
           /\ i = Len(trace) - 1
           /\ trace[Len(trace)].ev = "raise"
           /\ sleep_calls = Len(SleepEvents)
           /\ posts = trace[i].n + 1
           /\ result.kind = "raised"
           /\ result.exc.cls = "HTTPStatusError"
           /\ result.exc.status = reply.status
           /\ result.exc.body = reply.body

C3_Witness ==
    /\ pc = "done"
    /\ max_retries >= 2
    /\ posts = 2
    /\ reply.status = 404
    /\ result.exc.status = 404
    /\ result.exc.body = BodyErrorMessage

\* what the call observed last: the caller's cancellation, or else the
\* exception the try block raises on the most recent exchange
ObservedLast == IF cancelled # "no" THEN CancelledError ELSE TryBody(reply).exc

\* C4: a finished call has exactly one terminal outcome: it returned the
\* response decoded from its last exchange, or it raised exactly the exception
\* observed last, of the same category; no failure is swallowed and no earlier
\* error is raised instead.
C4_OneTerminalOutcome ==
    /\ Len(TerminalEvents) = (IF pc = "done" THEN 1 ELSE 0)
    /\ (pc # "done") => result = NoResult
    /\ (pc = "done") =>
          IF cancelled = "no" /\ TryBody(reply).ok
          THEN /\ result.kind = "returned"
               /\ result.resp = TryBody(reply).resp
               /\ result.exc = NoException
          ELSE /\ result.kind = "raised"
               /\ result.exc = ObservedLast
               /\ _categorize_error(result.exc) = _categorize_error(ObservedLast)
               /\ result.resp = NoResponse

C4_Witness ==
    /\ pc = "done"
    /\ cancelled = "no"
    /\ result.kind = "raised"
    /\ posts >= 3
    /\ Failures[1].cat = "timeout"
    /\ result.exc.cls = "HTTPStatusError"
    /\ result.exc.status = 503


\* C5: a 2xx response whose body is not JSON is retried like a server_error:
\* a call that ends on such a response ends by raising, and only after it has
\* used all max_retries + 1 attempts.
\* (The code raises httpx.RequestError for it, which no branch of
\* _should_retry accepts: the call ends at that attempt.)
C5_InvalidJsonRetried ==
    (/\ pc = "done"
     /\ cancelled = "no"
     /\ Is2xx(reply)
     /\ ~reply.body.parses)
    => /\ result.kind = "raised"
       /\ posts = max_retries + 1

\* C6: a 2xx response that decodes into a DeliveryResponse with success false
\* is returned by process_order at that attempt, with no retry and no sleep
\* for it, and create_order answers 500 carrying the downstream message.
C6_SuccessFalseReturned ==
    (/\ pc = "done"
     /\ cancelled = "no"
     /\ Is2xx(reply)
     /\ TryBody(reply).ok
     /\ ~reply.body.success)
    => /\ result.kind = "returned"
       /\ result.resp.success = FALSE
       /\ trace[Len(trace)].ev = "return"
       /\ trace[Len(trace) - 1] = Ev("attempt", posts - 1, "")
       /\ sleep_calls = posts - 1
       /\ sleep_calls = Len(SleepEvents)
       /\ http_response.status = 500
       /\ http_response.message = reply.body.message

C6_Witness ==
    /\ pc = "done"
    /\ reply = HttpResponse(200, BodyFailFull, HeaderAbsent)
    /\ posts = 2
    /\ http_response = HttpAnswer(500, "Order processing failed: ", "out of stock", 0)

\* C8: once the caller's cancellation has arrived (during an attempt or during
\* the backoff sleep) the call is over: CancelledError reaches the caller, the
\* failure is not put through a retry (no sleep starts) and no POST is issued.
C8_CancellationTerminal ==
    [][(cancelled' # "no") =>
          /\ pc' = "done"
          /\ result'.kind = "raised"
          /\ result'.exc = CancelledError
          /\ ~_should_retry(result'.exc, 0, max_retries + 1)
          /\ http_response' = NoHttpResponse
          /\ posts' = posts
          /\ sleep_calls' = sleep_calls
          /\ open_clients' = 0]_vars

C8_Witness ==
    /\ cancelled = "sleeping"
    /\ pc = "done"
    /\ posts = 2
    /\ result.exc = CancelledError

\* C9: the events of a call are attempt 0, then (classify, sleep, attempt n+1)
\* repeated, then the terminal event: an attempt n+1 directly follows one
\* completed sleep that directly follows the classification of attempt n's
\* failure; every sleep is followed by an attempt, so none comes after the
\* terminal attempt; with max_retries = 0 a timeout gives 1 attempt, no sleep.
C9_SequentialTrace ==
    /\ \A i \in 1..Len(trace) :
          /\ (trace[i].ev = "attempt") =>
                IF trace[i].n = 0 THEN i = 1
                ELSE /\ i >= 4
                     /\ trace[i - 1].ev = "sleep"
                     /\ trace[i - 2].ev = "classify"
                     /\ trace[i - 2].cat \in RetryableCategories
                     /\ trace[i - 3] = Ev("attempt", trace[i].n - 1, "")
          /\ (trace[i].ev = "sleep") =>
                /\ i >= 3
                /\ i < Len(trace)
                /\ trace[i - 1].ev = "classify"
                /\ trace[i + 1].ev = "attempt"
          /\ (trace[i].ev = "classify") =>
                /\ i >= 2
                /\ trace[i - 1].ev = "attempt"
          /\ (trace[i].ev \in {"return", "raise", "propagate"}) =>
                /\ i = Len(trace)
                /\ pc = "done"
    /\ (trace # <<>>) => trace[1] = Ev("attempt", 0, "")
    /\ sleep_calls = Len(SleepEvents) + (IF pc = "sleeping" \/ cancelled = "sleeping" THEN 1 ELSE 0)
    /\ (pc = "done" /\ cancelled # "sleeping") => sleep_calls = posts - 1
    /\ (pc = "done" /\ max_retries = 0 /\ cancelled = "no" /\ reply.cls \in TimeoutClasses)
          => /\ posts = 1
             /\ sleep_calls = 0
             /\ trace = <<Ev("attempt", 0, ""), Ev("classify", 0, "timeout"), Ev("raise", 0, "timeout")>>

C9_Witness ==
    /\ pc = "done"
    /\ posts = 3
    /\ Len(SleepEvents) = 2
    /\ result.kind = "raised"
    /\ Len(trace) = 9

\* C10 as stated: max_retries = 3, the downstream answers 503, 503, then 200
\* with the body {"success": true, "order_id": "X"}: the call returns the
\* decoded body after exactly 3 attempts and two server_error retry events.
\* (DeliveryResponse also requires message and processed_at: the model
\* construction fails and the call raises.)
C10_ScenarioPartialBody ==
    (/\ pc = "done"
     /\ max_retries = 3
     /\ wire = <<503, 503, 200>>
     /\ reply.body = BodyOkPartial)
    => /\ result.kind = "returned"
       /\ result.resp.success
       /\ result.resp.order_id = "X"
       /\ posts = 3
       /\ Len(RetryWarnings) = 2
       /\ \A i \in 1..Len(RetryWarnings) : RetryWarnings[i].category = "server_error"

\* C10 amended: max_retries = 3, the downstream answers 503, 503, then 200
\* with a body that carries all four DeliveryResponse fields (success true,
\* message, order_id "X", processed_at): the call returns the decoded body
\* after exactly 3 attempts, with exactly two retry log events, both
\* categorized server_error.
C10_ScenarioFullBody ==
    (/\ pc = "done"
     /\ max_retries = 3
     /\ wire = <<503, 503, 200>>
     /\ reply.body = BodyOkFull)
    => /\ result.kind = "returned"
       /\ result.resp = [success |-> TRUE, message |-> BodyOkFull.message, order_id |-> "X"]
       /\ posts = 3
       /\ Len(RetryWarnings) = 2
       /\ \A i \in 1..Len(RetryWarnings) :
             /\ RetryWarnings[i].category = "server_error"
             /\ RetryWarnings[i].status_code = 503
             /\ RetryWarnings[i].attempt = i
       /\ http_response.status = 200

C10_Witness ==
    /\ pc = "done"
    /\ max_retries = 3
    /\ wire = <<503, 503, 200>>
    /\ reply.body = BodyOkFull
    /\ result.kind = "returned"

(***************************************************************************)
(* Properties of health_check, under SpecHealth                            *)
(***************************************************************************)
\* C7: health_check issues exactly one GET per call whatever the exchange
\* ends in and whatever max_retries is, never sleeps, and a finished call
\* raised exactly the failure of that one exchange (or returned its data).
C7_HealthSingleAttempt ==
    /\ hc_gets = hc_calls
    /\ sleep_calls = 0
    /\ (hc_pc = "idle" /\ hc_calls > 0) =>
          IF HealthTryBody(hc_reply).ok
          THEN hc_result.kind = "returned"
          ELSE /\ hc_result.kind = "raised"
               /\ hc_result.exc = HealthTryBody(hc_reply).exc

C7_Witness ==
    /\ hc_pc = "idle"
    /\ hc_calls = 2
    /\ hc_gets = 2
    /\ max_retries >= 2
    /\ hc_reply = TransportFailure("ReadTimeout")
    /\ hc_result.exc = Exc("ReadTimeout")


(***************************************************************************)
(* Properties of the helper methods, under SpecHelpers                     *)
(***************************************************************************)
Exponential == retry_backoff_factor * Pow2(fn.attempt)
Is429(e) == e.cls = "HTTPStatusError" /\ e.status = 429
NumericHeaders == {"-5", "0", "2", "120"}
HintApplies == Is429(fn.exc) /\ fn.exc.retry_after \in NumericHeaders

\* C11 as stated: without a rate-limit hint the delay d for attempt index i
\* satisfies base*2^i <= d <= min(30 s, base*2^i) * 1.3 and d >= 0.1 s.
\* (Above the 30 s cap the delay is below base*2^i; below the 0.1 s floor it
\* is above 1.3 times the exponential value.)
C11_BackoffBoundsAsStated ==
    (fn.has_delay /\ ~HintApplies)
    => /\ Exponential <= fn.delay
       /\ fn.delay * 10 <= Min(MaxBackoffMs, Exponential) * 13
       /\ fn.delay >= 100

\* C11 amended: without a rate-limit hint the delay d for attempt index i and
\* factor base > 0 satisfies
\* min(30 s, base*2^i) <= d <= max(0.1 s, min(30 s, base*2^i) * 1.3), d >= 0.1 s.
C11_BackoffBounds ==
    (fn.has_delay /\ ~HintApplies)
    => /\ Min(30000, Exponential) <= fn.delay
       /\ fn.delay * 10 <= Max(1000, Min(30000, Exponential) * 13)
       /\ fn.delay >= 100

C11_Witness ==
    /\ fn.has_delay
    /\ ~HintApplies
    /\ retry_backoff_factor = 8000
    /\ fn.attempt = 3
    /\ fn.delay = 39000

\* C12: for a 429 response with a numeric Retry-After value h the delay
\* before jitter is min(h, 60 s) at every attempt index, whatever the
\* exponential value is.
C12_RetryAfterBase ==
    (fn.has_delay /\ HintApplies)
    => /\ fn.base = Min(NumericHeaderMs[fn.exc.retry_after], 60000)
       /\ fn.delay = Max(fn.base + (fn.jitter * fn.base) \div 100, 100)

C12_Witness ==
    /\ fn.has_delay
    /\ Is429(fn.exc)
    /\ fn.exc.retry_after = "120"
    /\ fn.attempt = 3
    /\ fn.base = 60000
    /\ Min(30000, Exponential) = 30000

\* C18: below max_retries _should_retry answers true exactly for the failures
\* _categorize_error puts in {timeout, connection, server_error, rate_limit},
\* in agreement with _is_retryable_error; client_error and unknown (statuses
\* below 400, schema validation errors) are never retried; at attempt index
\* >= max_retries the answer is false for every failure.
C18_RetryIffRetryableCategory ==
    (fn.has_retry /\ fn.has_cat /\ fn.has_retryable)
    => /\ (fn.attempt < max_retries) =>
             /\ fn.retry <=> (fn.cat \in {"timeout", "connection", "server_error", "rate_limit"})
             /\ fn.retry <=> fn.retryable
       /\ (fn.cat \in {"client_error", "unknown"}) => ~fn.retry
       /\ (fn.exc.cls = "HTTPStatusError" /\ fn.exc.status < 400) => ~fn.retry
       /\ (fn.exc.cls = "ValidationError") => ~fn.retry
       /\ (fn.attempt >= max_retries) => ~fn.retry

C18_Witness ==
    /\ fn.has_retry
    /\ fn.has_cat
    /\ fn.has_retryable
    /\ fn.attempt < max_retries
    /\ fn.exc.cls = "HTTPStatusError"
    /\ fn.exc.status = 301
    /\ fn.cat = "unknown"
    /\ ~fn.retry

\* the category of a failure, read off its class and status code
CategoryTable(e) ==
    CASE e.cls \in {"ConnectTimeout", "ReadTimeout", "WriteTimeout", "PoolTimeout"} -> "timeout"
      [] e.cls \in {"ConnectError", "ReadError", "RemoteProtocolError"} -> "connection"
      [] e.cls = "HTTPStatusError" /\ e.status >= 500 -> "server_error"
      [] e.cls = "HTTPStatusError" /\ e.status = 429 -> "rate_limit"
      [] e.cls = "HTTPStatusError" /\ e.status \in (400..499) \ {429} -> "client_error"
      [] OTHER -> "unknown"

\* the table with every protocol failure counted as a connection failure
CategoryTableAsStated(e) ==
    CASE e.cls \in TimeoutClasses -> "timeout"
      [] e.cls \in {"ConnectError"} \cup NetworkClasses \cup ProtocolClasses -> "connection"
      [] e.cls = "HTTPStatusError" /\ e.status >= 500 -> "server_error"
      [] e.cls = "HTTPStatusError" /\ e.status = 429 -> "rate_limit"
      [] e.cls = "HTTPStatusError" /\ e.status \in (400..499) \ {429} -> "client_error"
      [] OTHER -> "unknown"

\* C19 as stated: _categorize_error gives every failure exactly one category:
\* timeouts -> timeout; connect, network and protocol failures -> connection;
\* >= 500 -> server_error; 429 -> rate_limit; other 4xx -> client_error;
\* anything else -> unknown; whatever the attempt index and earlier calls.
\* (A LocalProtocolError is a protocol failure and lands in unknown.)
C19_CategoryIsTableAsStated ==
    fn.has_cat => fn.cat = CategoryTableAsStated(fn.exc)

\* C19 amended: _categorize_error gives every failure exactly one of the six
\* categories, the one of the table (timeouts -> timeout; connect, network and
\* remote-protocol failures -> connection; >= 500 -> server_error; 429 ->
\* rate_limit; other 4xx -> client_error; anything else, a local protocol
\* error included -> unknown), whatever the attempt index and however many
\* helper calls came before.
C19_CategoryIsTable ==
    fn.has_cat
    => /\ fn.cat \in {"timeout", "connection", "server_error", "client_error", "rate_limit", "unknown"}
       /\ fn.cat = CategoryTable(fn.exc)

C19_Witness ==
    /\ fn.has_cat
    /\ fn.calls = 3
    /\ fn.attempt >= 2
    /\ fn.exc.cls = "LocalProtocolError"
    /\ fn.cat = "unknown"

\* C20: for a 429 whose Retry-After header is absent, empty or not a number,
\* and for every failure that is not a 429 (a 503 with Retry-After included),
\* the delay before jitter is min(backoff_factor * 2^attempt, 30 s).
C20_HintOnlyFor429 ==
    (/\ fn.has_delay
     /\ \/ ~Is429(fn.exc)
        \/ fn.exc.retry_after \in {HeaderAbsent, "", "abc"})
    => fn.base = Min(Exponential, 30000)

C20_Witness ==
    /\ fn.has_delay
    /\ fn.exc.cls = "HTTPStatusError"
    /\ fn.exc.status = 503
    /\ fn.exc.retry_after = "2"
    /\ fn.base = 16000


(***************************************************************************)
(* Properties of create_order and of the HTTP clients, under Spec          *)
(***************************************************************************)
\* process_order used up its retries and raised a failure of category c
ExhaustedWith(c) ==
    /\ pc = "done"
    /\ cancelled = "no"
    /\ result.kind = "raised"
    /\ posts = max_retries + 1
    /\ _categorize_error(result.exc) = c

\* C13 as stated: after process_order exhausted its retries on a timeout or a
\* connection-level error, create_order answers HTTP 503.
\* (A timeout is answered 504 Gateway Timeout.)
C13_Unavailable503AsStated ==
    (ExhaustedWith("timeout") \/ ExhaustedWith("connection")) => http_response.status = 503

\* C13 amended: after process_order exhausted its retries, create_order
\* answers HTTP 504 (gateway timeout) when the last failure is a timeout and
\* HTTP 503 (service unavailable) when it is a connection-level error.
C13_TimeoutAndConnectionAnswers ==
    /\ ExhaustedWith("timeout") =>
          http_response = HttpAnswer(504, "Request to delivery service timed out", "", 0)
    /\ ExhaustedWith("connection") =>
          /\ http_response.status = 503
          /\ http_response.detail \in {"Unable to connect to delivery service",
                                       "Delivery service is currently unavailable"}

C13_Witness ==
    /\ ExhaustedWith("timeout")
    /\ max_retries >= 1
    /\ result.exc.cls = "ReadTimeout"
    /\ http_response.status = 504

\* C14 as stated: after process_order exhausted its retries on 429 responses,
\* create_order answers HTTP 503.
\* (429 falls into the branch for other statuses: 502.)
C14_RateLimit503AsStated ==
    ExhaustedWith("rate_limit") => http_response.status = 503

\* C14 amended: after process_order exhausted its retries on 429 responses,
\* create_order answers HTTP 502 (bad gateway) with the detail
\* "Delivery service error (HTTP 429)".
C14_RateLimitAnswers502 ==
    ExhaustedWith("rate_limit") =>
        http_response = HttpAnswer(502, "Delivery service error (HTTP )", "", 429)

C14_Witness ==
    /\ ExhaustedWith("rate_limit")
    /\ max_retries >= 2
    /\ http_response.status = 502
    /\ http_response.code = 429

\* process_order raised a client_error whose body carries a message
ClientErrorWithMessage ==
    /\ pc = "done"
    /\ cancelled = "no"
    /\ result.kind = "raised"
    /\ _categorize_error(result.exc) = "client_error"
    /\ result.exc.body.parses
    /\ result.exc.body.object
    /\ "message" \in result.exc.body.fields

\* C15 as stated: for every client_error of the Delivery API (400..499 other
\* than 429) create_order passes the downstream message on to its caller.
\* (Only status 400 is passed on; 404, 409, ... are answered 502.)
C15_MessagePassedAsStated ==
    ClientErrorWithMessage => http_response.message = result.exc.body.message

\* C15 amended: for a client_error with status 400 whose body is a JSON object
\* with a message, create_order answers 400 with that message; every other
\* client_error (404, 409, ...) is answered 502 "Delivery service error
\* (HTTP <status>)" without the downstream message.
C15_MessagePassedFor400 ==
    ClientErrorWithMessage =>
        IF result.exc.status = 400
        THEN http_response = HttpAnswer(400, "", result.exc.body.message, 0)
        ELSE http_response = HttpAnswer(502, "Delivery service error (HTTP )", "", result.exc.status)

C15_Witness ==
    /\ ClientErrorWithMessage
    /\ result.exc.status = 400
    /\ http_response.status = 400
    /\ http_response.message = "bad field"

\* C16: over all attempts of the calls made on one DeliveryAPIClient no
\* HTTP client (connection pool) is constructed beyond the first one.
\* (get_client constructs a new httpx.AsyncClient for every attempt.)
C16_OneSharedPool ==
    clients_created <= 1


(***************************************************************************)
(* Properties of two concurrent calls, under SpecSiblings                  *)
(***************************************************************************)
\* C17: the backoff sleep of one process_order call does not block the other
\* tasks of the event loop: while one call sleeps, a concurrent call that has
\* not finished can always take its next step (start, have its POST
\* completed, end its own sleep), and so can reach its terminal outcome.
C17_SleepDoesNotBlockSiblings ==
    /\ (pc = "sleeping" /\ sib.pc # "done") => ENABLED SiblingNext
    /\ (sib.pc = "sleeping" /\ pc \notin {"done"}) => ENABLED MainNext

\* a sibling call started during a sleep of the main call, made two attempts
\* with a sleep of its own and ended while the main call is in that same sleep
C17_Witness ==
    /\ pc = "sleeping"
    /\ sib.pc = "done"
    /\ sib.started_in_sleep = sleep_calls
    /\ sib.posts = 2
    /\ sib.sleeps = 1
    /\ sib.result.kind = "returned"


C22_NoClientAcrossSleep ==
    pc = "sleeping" => open_clients = 0

C22_Witness ==
    /\ pc = "sleeping"
    /\ attempt = 1
    /\ clients_created = 2
    /\ open_clients = 0


(***************************************************************************)
(* Properties of the Delivery API, under SpecDelivery                      *)
(***************************************************************************)
StoreOrderEnded == db.pc = "done" /\ db.op = "store_order"

\* C25: when the SIGALRM deadline of with_timeout fires while the body of
\* store_order runs, store_order raises sqlalchemy's TimeoutError (not
\* RuntimeError) and POST /api/delivery answers 503.
\* (The body's own `except Exception` turns DatabaseTimeoutError into
\* RuntimeError before the wrapper sees it: the answer is 500.)
C25_DeadlineIsTimeoutError ==
    (StoreOrderEnded /\ db.fault = "DatabaseTimeoutError")
    => /\ db.raised = "TimeoutError"
       /\ db.status = 503

\* C26: a sqlalchemy TimeoutError of the connection pool raised anywhere in
\* store_order (obtaining the session or committing) leaves store_order as
\* TimeoutError and POST /api/delivery answers 503 "Service overloaded".
\* (Raised by commit it is caught as SQLAlchemyError and becomes RuntimeError:
\* the answer is 500.)
C26_PoolTimeoutIs503 ==
    (StoreOrderEnded /\ db.fault = "TimeoutError")
    => /\ db.raised = "TimeoutError"
       /\ db.status = 503
       /\ db.error = "Service overloaded"

C23_AtMostOneRow ==
    db.rows <= 1

\* C24: create_order answers 200 "processed" only after process_order
\* returned a response with success true, and the Delivery API sent that
\* response only after the commit of store_order returned: a row of the
\* order is in the table.
C24_ProcessedOnlyIfCommitted ==
    (http_response.status = 200 /\ http_response.detail = "processed")
    => /\ result.kind = "returned"
       /\ result.resp.success
       /\ db.for_post = posts
       /\ db.committed
       /\ db.raised = "None"
       /\ db.rows >= 1

C24_Witness ==
    /\ pc = "done"
    /\ http_response.status = 200
    /\ http_response.detail = "processed"
    /\ posts = 2
    /\ db.rows = 1
    /\ db.committed


(***************************************************************************)
(* Properties of the stored text fields, under SpecSanitize                *)
(***************************************************************************)
\* C27: for every accepted input the stored customer_name and
\* shipping_address equal sanitize_html_content(trimmed input): the escaping
\* is applied exactly once between the POST body and the stored row.
\* (to_dict escapes and validate_order_data escapes the result again.)
C27_SanitisedOnce ==
    san.pc = "stored" => san.stored = sanitize_html_content(strip(san.input))


(***************************************************************************)
(* Properties of Config._get_ssm_parameter, under SpecSsm                  *)
(***************************************************************************)
\* C29: for sequential calls with one parameter name, a call made less than
\* _cache_ttl seconds after the last lookup, successful or failed, returns the
\* cached value without going to SSM, so two lookups are at least _cache_ttl
\* seconds apart; a failed lookup caches and returns the default.  The time
\* of a lookup is the clock reading of the call that made it.
C29_OneLookupPerTtl ==
    /\ (ssm.calls > 0 /\ ssm.call_cached /\ ssm.call_age < _cache_ttl)
       => /\ ~ssm.call_looked_up
          /\ ssm.pc = "idle"
          /\ ssm.returned = ssm.call_expected
    /\ ssm.lookups >= 2 => ssm.last_lookup - ssm.previous_lookup >= _cache_ttl
    /\ ssm.call_failed
       => /\ ssm.returned = DefaultValue
          /\ ssm.cached
          /\ ssm.cache_value = DefaultValue
          /\ ssm.cache_timestamp = ssm.current_time

\* a lookup failed, later calls inside the window got the default from the
\* cache, and the next lookup came once the window was over
C29_Witness ==
    /\ ssm.pc = "idle"
    /\ ssm.lookups = 2
    /\ ssm.calls >= 3
    /\ ssm.previous_lookup = 2
    /\ ssm.last_lookup = 32
    /\ ssm.call_looked_up
    /\ ssm.cache_value = "20"
    /\ ssm.now = 35


\* the send_request calls that have ended: those of gathered batches and the
\* finished tasks of the current batch
TgCompletedCalls == tg.completed + Cardinality({t \in 1..BatchSize : tg.task[t].pc = "done"})

\* C30: every send_request call that has ended has incremented exactly one
\* of total_orders_processed / total_orders_failed exactly once, whichever
\* path it took, so the sum of the two counters equals the number of
\* send_request calls that have ended.
C30_CountedExactlyOnce ==
    /\ \A t \in 1..BatchSize : tg.task[t].pc = "done" => tg.task[t].counted = 1
    /\ tg.total_orders_processed + tg.total_orders_failed = TgCompletedCalls

\* what does hold: a call counts once unless a print after its count raised,
\* and the counters never fall short of the calls that ended
TgCountedOnceUnlessPrintFailed ==
    /\ \A t \in 1..BatchSize :
          tg.task[t].pc = "done" /\ ~(tg.task[t].path \in {"2xx", "non-2xx"} /\ tg.task[t].print_failed)
              => tg.task[t].counted = 1
    /\ tg.total_orders_processed + tg.total_orders_failed >= TgCompletedCalls
====
